---- MODULE Spec2Model ----
(***************************************************************************)
(* Model of the generated-asset library (export_manager.py) and of the     *)
(* generation adapter's model lifecycle (music_generator.py).              *)
(*                                                                         *)
(* The filesystem is part of the state: the audio files on disk, the JSON  *)
(* sidecar (absent, readable, or unparseable) and the playlist directory.  *)
(* Every public method is one action; I/O failures are inputs of the       *)
(* action, drawn nondeterministically, and take the except-branch of the   *)
(* method they occur in.                                                   *)
(***************************************************************************)
EXTENDS Integers, Sequences, FiniteSets, TLC

\* ---------------------------------------------------------------- bounds
MaxClock == 3          \* last clock tick the model reaches
TicksPerSecond == 2    \* clock ticks per wall-clock second
MaxSaves == 3          \* longest sidecar a save still appends to
MaxLimit == 3          \* largest limit passed to get_recent_music
MaxLoads == 3          \* number of load_model attempts the model follows
MaxSamples == 3        \* longest audio array given to the post-processor
MaxFade == 3           \* longest fade window, in samples
MaxWords == 3          \* longest base prompt, in words and separators

Prompts == {"calm piano"}
Audios == {<< >>, <<1, -2>>}
PlaylistNames == {"mix"}

\* ------------------------------------------------------------ path names
export_path == "generated_music"

\* strftime("%Y%m%d_%H%M%S"): the clock truncated to whole seconds
Timestamp(now) == now \div TicksPerSecond

\* f"music_{timestamp}.wav"
Filename(timestamp) == [kind |-> "music", ts |-> timestamp, label |-> ""]

\* os.path.join(self.export_path, filename)
Filepath(filename) == [dir |-> export_path, name |-> filename]

\* os.path.join(export_path, "music_metadata.json")
metadata_file == [dir |-> export_path, name |-> [kind |-> "metadata", ts |-> 0, label |-> ""]]

\* os.path.join(self.export_path, f"playlist_{playlist_name}")
playlist_dir(playlist_name) ==
    [dir |-> export_path, name |-> [kind |-> "playlist", ts |-> 0, label |-> playlist_name]]

\* a path in the export directory that no save ever produced
stray_file == [dir |-> export_path, name |-> [kind |-> "stray", ts |-> 0, label |-> ""]]

None == [dir |-> "", name |-> [kind |-> "none", ts |-> 0, label |-> ""]]

Timestamps == 0 .. (MaxClock \div TicksPerSecond)
AudioPaths == {Filepath(Filename(t)) : t \in Timestamps}

VARIABLES
    clock,        \* datetime.now(), in ticks
    disk,         \* audio files on disk: path -> number of samples written
    metaState,    \* the sidecar file: "absent", "ok" or "corrupt"
    sidecar,      \* the JSON array held by a readable sidecar
    playlist,     \* per playlist name: directory exists, copied files, manifest
    model_loaded, \* MusicGenerator.model_loaded
    processor,    \* MusicGenerator.processor is set
    model,        \* MusicGenerator.model is set
    loads,        \* number of load_model calls so far
    last,         \* the call that ran last: arguments, failures, result, pre-state
    running       \* calls running concurrently: each thread's position and locals

vars == <<clock, disk, metaState, sidecar, playlist, model_loaded, processor,
          model, loads, last, running>>

\* ----------------------------------------------------------- helpers
exists(d, path) == path \in DOMAIN d

\* os.remove that leaves the file in place
Remove_nothing(d, path) == d

Remove(d, path) == [q \in (DOMAIN d) \ {path} |-> d[q]]

WriteFile(d, path, n) == [q \in (DOMAIN d) \cup {path} |-> IF q = path THEN n ELSE d[q]]

EmptyDisk == [q \in {} |-> 0]

NoInfo == [duration |-> 0, sample_rate |-> 0, max_amplitude |-> 0, samples |-> 0]

NoCall ==
    [op |-> "init", path |-> None, limit |-> 0,
     audioFailed |-> FALSE, metaFailed |-> FALSE, removeFailed |-> FALSE,
     readFailed |-> FALSE, writeFailed |-> FALSE, loadTried |-> FALSE,
     retPath |-> None, retList |-> << >>, retOk |-> FALSE, msg |-> "",
     prompt |-> <<"", "">>, tokens |-> 0,
     loadFailed |-> FALSE, inferred |-> FALSE, inferFailed |-> FALSE,
     sample |-> << >>, out |-> << >>, raised |-> FALSE,
     fadeIn |-> 0, fadeOut |-> 0, info |-> NoInfo,
     base |-> << >>, style |-> "", text |-> << >>,
     selected |-> "", variant |-> "",
     name |-> "", mkdirFailed |-> FALSE, failAt |-> 0, manifest |-> None,
     pre |-> [disk |-> EmptyDisk, metaState |-> "absent", sidecar |-> << >>]]

Pre == [disk |-> disk, metaState |-> metaState, sidecar |-> sidecar]

Call(name) == [NoCall EXCEPT !.op = name, !.pre = Pre]

\* ------------------------------------------------- audio_processor.py
\* save_audio: np.max of an empty array raises, as does a failing sf.write;
\* both are caught and reported as False
save_audio(audio_array, writeOk) == Len(audio_array) > 0 /\ writeOk

\* self.sample_rate = 32000
sample_rate == 32000

\* amplitudes are fractions num/den; den = 0 stands for the nan or inf that
\* numpy yields for a division by zero
Frac(n, d) == [num |-> n, den |-> d]

FracSeq(audio_array) == [i \in DOMAIN audio_array |-> Frac(audio_array[i], 1)]

Times(x, f) == Frac(x.num * f.num, x.den * f.den)

Abs(n) == IF n < 0 THEN 0 - n ELSE n

RECURSIVE Peak(_, _)
\* np.max(np.abs(audio_array)) over the first n samples of a non-empty array
Peak(audio_array, n) ==
    IF n = 0 THEN 0
    ELSE LET rest == Peak(audio_array, n - 1)
             a == Abs(audio_array[n])
         IN  IF a > rest THEN a ELSE rest

\* audio_array / np.max(np.abs(audio_array))
Normalized(audio_array) ==
    [i \in DOMAIN audio_array |-> Frac(audio_array[i], Peak(audio_array, Len(audio_array)))]

\* a save_audio without the division by the peak
save_audio_data_raw(audio_array) == [i \in DOMAIN audio_array |-> Frac(audio_array[i], 1)]

\* what save_audio hands to sf.write
save_audio_data(audio_array) == Normalized(audio_array)

\* what create_audio_buffer hands to sf.write: the array as it is
create_audio_buffer_data(audio_array) == FracSeq(audio_array)

\* int(fade_duration * self.sample_rate), the duration being a fraction
FadeSamples(duration) == (duration.num * sample_rate) \div duration.den

\* np.linspace(0, 1, n)[i] and np.linspace(1, 0, n)[i], i counted from 0
FadeInCurve(n, i) == IF n = 1 THEN Frac(0, 1) ELSE Frac(i, n - 1)
FadeOutCurve(n, i) == IF n = 1 THEN Frac(1, 1) ELSE Frac(n - 1 - i, n - 1)

\* >= in place of > in the length test
FadeApplies_inclusive(len, fade_samples) == len >= fade_samples

\* if len(audio_array) > fade_samples
FadeApplies(len, fade_samples) == len > fade_samples

\* AudioProcessor.add_fade_effects on an array of fractions: the fade-in is
\* applied in place first; audio_array[-0:] *= fade_out raises for an empty
\* fade_out, which the except branch turns into returning the array as it is
add_fade_effects(audio, fade_in_samples, fade_out_samples) ==
    LET len == Len(audio)
        faded_in ==
            [i \in DOMAIN audio |->
                IF FadeApplies(len, fade_in_samples) /\ i <= fade_in_samples
                THEN Times(audio[i], FadeInCurve(fade_in_samples, i - 1))
                ELSE audio[i]]
    IN  IF FadeApplies(len, fade_out_samples) /\ fade_out_samples > 0
        THEN [i \in DOMAIN audio |->
                 IF i > len - fade_out_samples
                 THEN Times(faded_in[i],
                            FadeOutCurve(fade_out_samples, i - (len - fade_out_samples) - 1))
                 ELSE faded_in[i]]
        ELSE faded_in

\* AudioProcessor.adjust_volume
adjust_volume(audio, volume_factor) == [i \in DOMAIN audio |-> Times(audio[i], volume_factor)]

\* round(x, 2) of num/den, in hundredths
Round2(num, den) == (2 * 100 * num + den) \div (2 * den)

\* AudioProcessor.get_audio_info; np.max raises on an empty array
get_audio_info_raises(audio_array) == Len(audio_array) = 0

get_audio_info(audio_array) ==
    [duration |-> Round2(Len(audio_array), sample_rate),
     sample_rate |-> sample_rate,
     max_amplitude |-> Peak(audio_array, Len(audio_array)),
     samples |-> Len(audio_array)]

\* ------------------------------------------------- export_manager.py
\* a write whose failure is swallowed instead of raised
WriteSidecar_swallowing(ms, sc, records, wr) ==
    CASE wr = "ok" -> [metaState |-> "ok", sidecar |-> records, raised |-> FALSE]
      [] wr = "unchanged" -> [metaState |-> ms, sidecar |-> sc, raised |-> FALSE]
      [] wr = "corrupt" -> [metaState |-> "corrupt", sidecar |-> << >>, raised |-> FALSE]

\* with open(self.metadata_file, 'w') as f: json.dump(records, f)
\* wr = "ok": written; "unchanged": open() raised; "corrupt": the file was
\* truncated by open() and json.dump raised before the array was complete
WriteSidecar(ms, sc, records, wr) ==
    CASE wr = "ok" -> [metaState |-> "ok", sidecar |-> records, raised |-> FALSE]
      [] wr = "unchanged" -> [metaState |-> ms, sidecar |-> sc, raised |-> TRUE]
      [] wr = "corrupt" -> [metaState |-> "corrupt", sidecar |-> << >>, raised |-> TRUE]

\* json.load of the sidecar raises when the read fails or the file is corrupt
ReadRaises(ms, readOk) == ms = "corrupt" \/ ~readOk

\* insert(0, ...) in place of append
save_metadata_prepending(ms, sc, music_metadata, readOk, wr) ==
    IF ms # "absent" /\ ReadRaises(ms, readOk)
    THEN [metaState |-> ms, sidecar |-> sc, raised |-> TRUE]
    ELSE LET all_metadata == IF ms # "absent" THEN sc ELSE << >>
         IN  WriteSidecar(ms, sc, <<music_metadata>> \o all_metadata, wr)

save_metadata(ms, sc, music_metadata, readOk, wr) ==
    IF ms # "absent" /\ ReadRaises(ms, readOk)
    THEN [metaState |-> ms, sidecar |-> sc, raised |-> TRUE]
    ELSE LET all_metadata == IF ms # "absent" THEN sc ELSE << >>
         IN  WriteSidecar(ms, sc, Append(all_metadata, music_metadata), wr)

\* the listing without the os.path.exists filter
load_music_library_unfiltered(ms, sc, d, readOk) ==
    IF ms = "absent" THEN << >>
    ELSE IF ReadRaises(ms, readOk) THEN << >>
    ELSE sc

load_music_library(ms, sc, d, readOk) ==
    IF ms = "absent" THEN << >>
    ELSE IF ReadRaises(ms, readOk) THEN << >>
    ELSE SelectSeq(sc, LAMBDA metadata : exists(d, metadata.filepath))

\* == in place of != in the comprehension
updated_metadata_inverted(all_metadata, filepath) ==
    SelectSeq(all_metadata, LAMBDA m : m.filepath = filepath)

\* [m for m in all_metadata if m['filepath'] != filepath]
updated_metadata(all_metadata, filepath) ==
    SelectSeq(all_metadata, LAMBDA m : m.filepath # filepath)

RECURSIVE InsertAsc(_, _)
\* the insertion step of a sort without reverse=True
InsertAsc(x, s) ==
    IF s = << >> THEN <<x>>
    ELSE IF Head(s).timestamp <= x.timestamp THEN <<Head(s)>> \o InsertAsc(x, Tail(s))
    ELSE <<x>> \o s

RECURSIVE InsertDesc(_, _)
\* position of x in a list already sorted by timestamp descending: after
\* every element with a timestamp >= x's (sorted() is stable)
InsertDesc(x, s) ==
    IF s = << >> THEN <<x>>
    ELSE IF Head(s).timestamp >= x.timestamp THEN <<Head(s)>> \o InsertDesc(x, Tail(s))
    ELSE <<x>> \o s

RECURSIVE SortedDesc(_, _)
\* sorted(all_music, key=lambda x: x['timestamp'], reverse=True)
SortedDesc(s, n) ==
    IF n = 0 THEN << >> ELSE InsertDesc(s[n], SortedDesc(s, n - 1))

\* [:limit] for limit >= 0
Truncate(s, limit) == SubSeq(s, 1, IF limit < Len(s) THEN limit ELSE Len(s))

get_recent_music(all_music, limit) == Truncate(SortedDesc(all_music, Len(all_music)), limit)

\* ------------------------------------------------------------ the state
WriteOutcomes == {"ok", "unchanged", "corrupt"}

\* a playlist directory: whether it exists, the file names copied into it and
\* whether it holds a playlist.json (whose "files" entry is the selection of
\* the export call that wrote it)
NoPlaylist == [exists |-> FALSE, files |-> {}, manifest |-> FALSE]

\* ------------------------------------------------- concurrent calls
\* the threads that run calls on the shared ExportManager and MusicGenerator
Threads == {1, 2}

\* a thread between calls; in a call: op and path are the call and its
\* filepath, record the metadata it appends, local what it read from the
\* sidecar, readAt and writeAt the positions of its read and its write among
\* the sidecar accesses, early whether it tested model_loaded before any
\* load_model had succeeded, ok whether the call returned its success value
NoThread ==
    [pc |-> "idle", op |-> "", path |-> None, record |-> None, local |-> << >>,
     readAt |-> 0, writeAt |-> 0, early |-> FALSE, ok |-> FALSE]

\* events counts the sidecar accesses, successes the load_model calls that
\* returned True
NoThreads == [thread |-> [t \in Threads |-> NoThread], events |-> 0, successes |-> 0]

Init ==
    /\ clock = 0
    /\ disk = EmptyDisk
    /\ metaState = "absent"
    /\ sidecar = << >>
    /\ playlist = [n \in PlaylistNames |-> NoPlaylist]
    /\ model_loaded = FALSE
    /\ processor = FALSE
    /\ model = FALSE
    /\ loads = 0
    /\ last = NoCall
    /\ running = NoThreads

\* datetime.now() advances between calls
Tick ==
    /\ clock < MaxClock
    /\ clock' = clock + 1
    /\ last' = Call("tick")
    /\ UNCHANGED <<disk, metaState, sidecar, playlist, model_loaded, processor,
                   model, loads>>
    /\ UNCHANGED running

\* an audio file is removed by something other than the library
ExternalDelete(path) ==
    /\ exists(disk, path)
    /\ disk' = Remove(disk, path)
    /\ last' = [Call("external") EXCEPT !.path = path]
    /\ UNCHANGED <<clock, metaState, sidecar, playlist, model_loaded, processor,
                   model, loads>>
    /\ UNCHANGED running

\* ExportManager.save_music_file
SaveRecord(audio_array, prompt, audioOk, readOk, wr) ==
    /\ Len(sidecar) < MaxSaves
    /\ LET timestamp == Timestamp(clock)
           filename == Filename(timestamp)
           filepath == Filepath(filename)
       IN  IF save_audio(audio_array, audioOk)
           THEN LET written == WriteFile(disk, filepath, Len(audio_array))
                    music_metadata ==
                        [filename |-> filename, prompt |-> prompt,
                         timestamp |-> timestamp, filepath |-> filepath,
                         file_size |-> written[filepath]]
                    sm == save_metadata(metaState, sidecar, music_metadata, readOk, wr)
                IN  /\ disk' = written
                    /\ metaState' = sm.metaState
                    /\ sidecar' = sm.sidecar
                    /\ last' = [Call("save") EXCEPT
                                   !.readFailed = metaState # "absent" /\ ~readOk,
                                   !.writeFailed = wr # "ok",
                                   !.metaFailed = \/ metaState = "corrupt"
                                                  \/ (metaState # "absent" /\ ~readOk)
                                                  \/ wr # "ok",
                                   !.retPath = filepath]
           ELSE /\ last' = [Call("save") EXCEPT !.audioFailed = TRUE, !.retPath = None]
                /\ UNCHANGED <<disk, metaState, sidecar>>
    /\ UNCHANGED <<clock, playlist, model_loaded, processor, model, loads>>
    /\ UNCHANGED running

\* ExportManager.load_music_library
ListRecords(readOk) ==
    /\ last' = [Call("list") EXCEPT
                   !.readFailed = metaState # "absent" /\ ReadRaises(metaState, readOk),
                   !.retList = load_music_library(metaState, sidecar, disk, readOk)]
    /\ UNCHANGED <<clock, disk, metaState, sidecar, playlist, model_loaded,
                   processor, model, loads>>
    /\ UNCHANGED running

\* ExportManager.get_recent_music
GetRecent(limit, readOk) ==
    /\ LET all_music == load_music_library(metaState, sidecar, disk, readOk)
       IN  last' = [Call("recent") EXCEPT
                       !.limit = limit,
                       !.readFailed = metaState # "absent" /\ ReadRaises(metaState, readOk),
                       !.retList = get_recent_music(all_music, limit)]
    /\ UNCHANGED <<clock, disk, metaState, sidecar, playlist, model_loaded,
                   processor, model, loads>>
    /\ UNCHANGED running

\* ExportManager.delete_music_file
DeleteRecord(filepath, removeOk, readOk, wr) ==
    /\ LET isMeta == filepath = metadata_file
           present == IF isMeta THEN metaState # "absent" ELSE exists(disk, filepath)
       IN  IF present /\ ~removeOk
           THEN \* os.remove raised
                /\ last' = [Call("delete") EXCEPT !.path = filepath,
                                                  !.removeFailed = TRUE,
                                                  !.retOk = FALSE]
                /\ UNCHANGED <<disk, metaState, sidecar>>
           ELSE LET d1 == IF present /\ ~isMeta THEN Remove(disk, filepath) ELSE disk
                    ms1 == IF present /\ isMeta THEN "absent" ELSE metaState
                    sc1 == IF present /\ isMeta THEN << >> ELSE sidecar
                    all_metadata == load_music_library(ms1, sc1, d1, readOk)
                    w == WriteSidecar(ms1, sc1, updated_metadata(all_metadata, filepath), wr)
                IN  /\ disk' = d1
                    /\ metaState' = w.metaState
                    /\ sidecar' = w.sidecar
                    /\ last' = [Call("delete") EXCEPT
                                   !.path = filepath,
                                   !.readFailed = ms1 # "absent" /\ ReadRaises(ms1, readOk),
                                   !.writeFailed = wr # "ok",
                                   !.retOk = ~w.raised]
    /\ UNCHANGED <<clock, playlist, model_loaded, processor, model, loads>>
    /\ UNCHANGED running

RECURSIVE CopyAll_skipping(_, _, _, _, _)
\* a copy loop that passes over a file it cannot copy
CopyAll_skipping(selected_files, i, d, failAt, copied) ==
    IF i > Len(selected_files) THEN [files |-> copied, raised |-> FALSE]
    ELSE IF ~exists(d, selected_files[i].filepath) \/ i = failAt
         THEN CopyAll_skipping(selected_files, i + 1, d, failAt, copied)
         ELSE CopyAll_skipping(selected_files, i + 1, d, failAt,
                               copied \cup {selected_files[i].filename})

RECURSIVE CopyAll(_, _, _, _, _)
\* the loop of shutil.copy2 calls: stops at the first copy that raises
\* (source file missing, or the copy numbered failAt fails)
CopyAll(selected_files, i, d, failAt, copied) ==
    IF i > Len(selected_files) THEN [files |-> copied, raised |-> FALSE]
    ELSE IF ~exists(d, selected_files[i].filepath) \/ i = failAt
         THEN [files |-> copied, raised |-> TRUE]
         ELSE CopyAll(selected_files, i + 1, d, failAt,
                      copied \cup {selected_files[i].filename})

Selections(records) ==
    {SubSeq(records, i, j) : i \in 1 .. Len(records) + 1, j \in 0 .. Len(records)}

\* ExportManager.export_playlist; last.manifest is the "files" entry of the
\* playlist.json this call wrote, None when it wrote none
ExportPlaylist(selected_files, playlist_name, mkdirOk, failAt, manifestOk) ==
    /\ IF ~mkdirOk
       THEN /\ last' = [Call("export") EXCEPT !.retPath = None,
                                              !.retList = selected_files,
                                              !.name = playlist_name,
                                              !.mkdirFailed = TRUE,
                                              !.failAt = failAt]
            /\ UNCHANGED playlist
       ELSE LET dir == playlist[playlist_name]
                c == CopyAll(selected_files, 1, disk, failAt, dir.files)
                done == ~c.raised /\ manifestOk
            IN  /\ playlist' = [playlist EXCEPT ![playlist_name] =
                       [exists |-> TRUE, files |-> c.files,
                        manifest |-> dir.manifest \/ done]]
                /\ last' = [Call("export") EXCEPT
                               !.retList = selected_files,
                               !.name = playlist_name,
                               !.failAt = failAt,
                               !.writeFailed = ~c.raised /\ ~manifestOk,
                               !.manifest = IF done THEN selected_files ELSE None,
                               !.retPath = IF done THEN playlist_dir(playlist_name)
                                           ELSE None]
    /\ UNCHANGED <<clock, disk, metaState, sidecar, model_loaded,
                   processor, model, loads>>
    /\ UNCHANGED running

\* ------------------------------------------------- music_generator.py
\* how load_model ends: "to_device_raises" is model.to(device) raising,
\* which only a "cuda" device can do
LoadOutcomes == {"ok", "processor_raises", "model_raises", "to_device_raises"}

Styles == {"general", "jazz", "rock"}
Durations == {10, 30}

\* MusicGenerator.load_model: the fields after the call and its return value
load_model(proc, mdl, loaded, outcome) ==
    CASE outcome = "processor_raises" ->
            [processor |-> proc, model |-> mdl, model_loaded |-> loaded, ret |-> FALSE]
      [] outcome = "model_raises" ->
            [processor |-> TRUE, model |-> mdl, model_loaded |-> loaded, ret |-> FALSE]
      [] outcome = "to_device_raises" ->
            [processor |-> TRUE, model |-> TRUE, model_loaded |-> loaded, ret |-> FALSE]
      [] OTHER ->
            [processor |-> TRUE, model |-> TRUE, model_loaded |-> TRUE, ret |-> TRUE]

\* a guard that ignores the flag
NeedsLoad_always(loaded) == TRUE

\* the guard of generate_music: load only when the flag is not set
NeedsLoad(loaded) == ~loaded

\* num_tokens = int(duration * 50)
num_tokens(duration) == duration * 50

\* style_prompts.get(style, prompt): the prompt and the suffix appended to it
enhanced_prompt(prompt, style) ==
    CASE style = "jazz" -> <<prompt, ", jazz style, smooth, sophisticated, piano, saxophone">>
      [] style = "rock" -> <<prompt, ", rock music, guitar, drums, energetic">>
      [] OTHER -> <<prompt, "">>

\* a generate_music that goes on to inference whatever load_model returned
generate_music_unchecked(needsLoad, loadRet, inferOk) ==
    IF inferOk THEN [audio |-> TRUE, msg |-> "Generated", inferred |-> TRUE]
    ELSE [audio |-> FALSE, msg |-> "Error generating music", inferred |-> TRUE]

\* MusicGenerator.generate_music after the load decision: what it returns
\* (audio: the array is not None) and whether the backend was called, given
\* the return value of load_model and whether anything in the try block raises
generate_music(needsLoad, loadRet, inferOk) ==
    IF needsLoad /\ ~loadRet
    THEN [audio |-> FALSE, msg |-> "Failed to load model", inferred |-> FALSE]
    ELSE IF inferOk THEN [audio |-> TRUE, msg |-> "Generated", inferred |-> TRUE]
    ELSE [audio |-> FALSE, msg |-> "Error generating music", inferred |-> TRUE]

\* MusicGenerator.get_available_models
ModelIds == {"small", "medium", "large"}

\* the model_size load_model runs with when generate_music calls it:
\* self.load_model() passes none, so it is the default of the parameter
load_model_size(selected_model) == "small"

\* one request of the application: generate_with_style, which ends in
\* generate_music; selected_model is the sidebar's choice, which goes into
\* the metadata of the record (last.selected) and not into the call;
\* last.variant is the variant load_model fetched during the call
Generate(prompt, style, duration, selected_model, outcome, inferOk) ==
    /\ ~NeedsLoad(model_loaded) \/ loads < MaxLoads
    /\ LET call == [Call("generate") EXCEPT !.prompt = enhanced_prompt(prompt, style),
                                            !.tokens = num_tokens(duration),
                                            !.selected = selected_model]
       IN  IF NeedsLoad(model_loaded)
           THEN LET l == load_model(processor, model, model_loaded, outcome)
                    g == generate_music(TRUE, l.ret, inferOk)
                IN  /\ processor' = l.processor
                    /\ model' = l.model
                    /\ model_loaded' = l.model_loaded
                    /\ loads' = loads + 1
                    /\ last' = [call EXCEPT
                                   !.loadTried = TRUE,
                                   !.loadFailed = outcome # "ok",
                                   !.variant = load_model_size(selected_model),
                                   !.inferred = g.inferred,
                                   !.inferFailed = outcome = "ok" /\ ~inferOk,
                                   !.retOk = g.audio,
                                   !.msg = g.msg]
           ELSE LET g == generate_music(FALSE, TRUE, inferOk)
                IN  /\ last' = [call EXCEPT
                                   !.inferred = g.inferred,
                                   !.inferFailed = ~inferOk,
                                   !.retOk = g.audio,
                                   !.msg = g.msg]
                    /\ UNCHANGED <<processor, model, model_loaded, loads>>
    /\ UNCHANGED <<clock, disk, metaState, sidecar, playlist>>
    /\ UNCHANGED running

\* ------------------------------------------------- music_styles.py
\* a string is the sequence of its pieces: words and ", " separators
Sep == ", "

\* MusicStyles.style_configs
style_configs ==
    [jazz |-> [name |-> "Jazz", tempo |-> "medium", mood |-> "sophisticated",
               keywords |-> <<"jazz", "swing", "blues", "piano", "saxophone", "smooth">>],
     classical |-> [name |-> "Classical", tempo |-> "varied", mood |-> "elegant",
               keywords |-> <<"classical", "orchestral", "symphony", "piano", "violin",
                              "elegant">>],
     electronic |-> [name |-> "Electronic", tempo |-> "fast", mood |-> "energetic",
               keywords |-> <<"electronic", "synth", "digital", "beats", "modern",
                              "futuristic">>],
     rock |-> [name |-> "Rock", tempo |-> "fast", mood |-> "energetic",
               keywords |-> <<"rock", "guitar", "drums", "electric", "powerful",
                              "energetic">>],
     ambient |-> [name |-> "Ambient", tempo |-> "slow", mood |-> "peaceful",
               keywords |-> <<"ambient", "atmospheric", "peaceful", "ethereal", "calm",
                              "meditative">>],
     pop |-> [name |-> "Pop", tempo |-> "medium-fast", mood |-> "upbeat",
               keywords |-> <<"pop", "catchy", "melodic", "upbeat", "mainstream",
                              "radio-friendly">>]]

RECURSIVE Join(_, _)
\* sep.join(parts)
Join(parts, sep) ==
    IF parts = << >> THEN << >>
    ELSE IF Len(parts) = 1 THEN <<parts[1]>>
    ELSE <<parts[1], sep>> \o Join(Tail(parts), sep)

\* a get_style_prompt that puts the style's words before the prompt
get_style_prompt_prefixing(base_prompt, style) ==
    IF style \notin DOMAIN style_configs THEN base_prompt
    ELSE LET config == style_configs[style]
             keywords == Join(Truncate(config.keywords, 3), Sep)
         IN  keywords \o <<Sep, config.mood, Sep>> \o base_prompt

\* MusicStyles.get_style_prompt
get_style_prompt(base_prompt, style) ==
    IF style \notin DOMAIN style_configs THEN base_prompt
    ELSE LET config == style_configs[style]
             keywords == Join(Truncate(config.keywords, 3), Sep)
         IN  base_prompt \o <<Sep>> \o keywords \o <<Sep, config.mood>>

\* the prompts and style ids handed to get_style_prompt
PromptWords == {"calm", "sophisticated", Sep}
RECURSIVE SeqsUpTo(_, _)
SeqsUpTo(S, n) ==
    IF n = 0 THEN {<< >>}
    ELSE LET shorter == SeqsUpTo(S, n - 1)
         IN  shorter \cup {Append(q, x) : q \in shorter, x \in S}
BasePrompts == SeqsUpTo(PromptWords, MaxWords)
StyleIds == DOMAIN style_configs \cup {"general", "blues"}

GetStylePrompt(base_prompt, style) ==
    /\ last' = [Call("get_style_prompt") EXCEPT
                   !.base = base_prompt,
                   !.style = style,
                   !.text = get_style_prompt(base_prompt, style)]
    /\ UNCHANGED <<clock, disk, metaState, sidecar, playlist, model_loaded,
                   processor, model, loads>>
    /\ UNCHANGED running

NextStyles ==
    \E base_prompt \in BasePrompts, style \in StyleIds :
       GetStylePrompt(base_prompt, style)

SpecStyles == Init /\ [][NextStyles]_vars

\* the library store without playlists
Next ==
    \/ Tick
    \/ \E path \in AudioPaths : ExternalDelete(path)
    \/ \E audio_array \in Audios, prompt \in Prompts, audioOk \in BOOLEAN,
          readOk \in BOOLEAN, wr \in WriteOutcomes :
          SaveRecord(audio_array, prompt, audioOk, readOk, wr)
    \/ \E readOk \in BOOLEAN : ListRecords(readOk)
    \/ \E limit \in 0 .. MaxLimit, readOk \in BOOLEAN : GetRecent(limit, readOk)
    \/ \E filepath \in AudioPaths \cup {metadata_file, stray_file}, removeOk \in BOOLEAN,
          readOk \in BOOLEAN, wr \in WriteOutcomes :
          DeleteRecord(filepath, removeOk, readOk, wr)

Spec == Init /\ [][Next]_vars

\* the library store with playlist export
NextStore ==
    \/ Next
    \/ \E selected_files \in Selections(sidecar), playlist_name \in PlaylistNames,
          mkdirOk \in BOOLEAN, failAt \in 0 .. 1, manifestOk \in BOOLEAN :
          ExportPlaylist(selected_files, playlist_name, mkdirOk, failAt, manifestOk)

SpecStore == Init /\ [][NextStore]_vars

\* the generation adapter
NextAdapter ==
    \E prompt \in Prompts, style \in Styles, duration \in Durations,
       selected_model \in ModelIds, outcome \in LoadOutcomes, inferOk \in BOOLEAN :
       Generate(prompt, style, duration, selected_model, outcome, inferOk)

SpecAdapter == Init /\ [][NextAdapter]_vars

\* ------------------------------------------------- the post-processor
Amplitudes == {-2, 1}
Silence(k) == [i \in 1 .. k |-> 0]
\* the arrays tried: every array of non-zero amplitudes and the silent ones
Samples ==
    UNION {[1 .. k -> Amplitudes] \cup {Silence(k)} : k \in 0 .. MaxSamples}
FadeDurations == {Frac(k, sample_rate) : k \in 0 .. MaxFade}
VolumeFactors == {Frac(1, 1), Frac(1, 2), Frac(2, 1)}

\* AudioProcessor.add_fade_effects
AddFadeEffects(audio_array, fade_in_duration, fade_out_duration) ==
    /\ last' = [Call("add_fade_effects") EXCEPT
                   !.sample = audio_array,
                   !.fadeIn = FadeSamples(fade_in_duration),
                   !.fadeOut = FadeSamples(fade_out_duration),
                   !.out = add_fade_effects(FracSeq(audio_array),
                                            FadeSamples(fade_in_duration),
                                            FadeSamples(fade_out_duration))]
    /\ UNCHANGED <<clock, disk, metaState, sidecar, playlist, model_loaded,
                   processor, model, loads>>
    /\ UNCHANGED running

\* AudioProcessor.adjust_volume
AdjustVolume(audio_array, volume_factor) ==
    /\ last' = [Call("adjust_volume") EXCEPT
                   !.sample = audio_array,
                   !.out = adjust_volume(FracSeq(audio_array), volume_factor)]
    /\ UNCHANGED <<clock, disk, metaState, sidecar, playlist, model_loaded,
                   processor, model, loads>>
    /\ UNCHANGED running

\* AudioProcessor.get_audio_info: no try block, the exception reaches the caller
GetAudioInfo(audio_array) ==
    /\ last' = IF get_audio_info_raises(audio_array)
               THEN [Call("get_audio_info") EXCEPT !.sample = audio_array,
                                                   !.raised = TRUE]
               ELSE [Call("get_audio_info") EXCEPT !.sample = audio_array,
                                                   !.info = get_audio_info(audio_array)]
    /\ UNCHANGED <<clock, disk, metaState, sidecar, playlist, model_loaded,
                   processor, model, loads>>
    /\ UNCHANGED running

\* AudioProcessor.create_audio_buffer: no try block either
CreateAudioBuffer(audio_array, writeOk) ==
    /\ last' = IF writeOk
               THEN [Call("create_audio_buffer") EXCEPT
                        !.sample = audio_array,
                        !.out = create_audio_buffer_data(audio_array),
                        !.retOk = TRUE]
               ELSE [Call("create_audio_buffer") EXCEPT !.sample = audio_array,
                                                        !.raised = TRUE]
    /\ UNCHANGED <<clock, disk, metaState, sidecar, playlist, model_loaded,
                   processor, model, loads>>
    /\ UNCHANGED running

\* AudioProcessor.save_audio, called with a file name of the caller's
SaveAudio(audio_array, writeOk) ==
    /\ IF save_audio(audio_array, writeOk)
       THEN /\ disk' = WriteFile(disk, stray_file, Len(audio_array))
            /\ last' = [Call("save_audio") EXCEPT
                           !.sample = audio_array,
                           !.out = save_audio_data(audio_array),
                           !.retOk = TRUE]
       ELSE /\ disk' = disk
            /\ last' = [Call("save_audio") EXCEPT !.sample = audio_array,
                                                  !.writeFailed = ~writeOk]
    /\ UNCHANGED <<clock, metaState, sidecar, playlist, model_loaded,
                   processor, model, loads>>
    /\ UNCHANGED running

\* AudioProcessor.convert_to_mp3: the codec's failure is caught
ConvertToMp3(codecOk) ==
    /\ last' = [Call("convert_to_mp3") EXCEPT !.writeFailed = ~codecOk,
                                              !.retOk = codecOk]
    /\ UNCHANGED <<clock, disk, metaState, sidecar, playlist, model_loaded,
                   processor, model, loads>>
    /\ UNCHANGED running

NextAudio ==
    \/ \E audio_array \in Samples, fade_in_duration \in FadeDurations,
          fade_out_duration \in FadeDurations :
          AddFadeEffects(audio_array, fade_in_duration, fade_out_duration)
    \/ \E audio_array \in Samples, volume_factor \in VolumeFactors :
          AdjustVolume(audio_array, volume_factor)
    \/ \E audio_array \in Samples : GetAudioInfo(audio_array)
    \/ \E audio_array \in Samples, writeOk \in BOOLEAN :
          CreateAudioBuffer(audio_array, writeOk)
    \/ \E audio_array \in Samples, writeOk \in BOOLEAN : SaveAudio(audio_array, writeOk)
    \/ \E codecOk \in BOOLEAN : ConvertToMp3(codecOk)

SpecAudio == Init /\ [][NextAudio]_vars

\* ---------------------------------------- two writers of the sidecar
\* save_music_file and delete_music_file run by two threads on the cached
\* ExportManager, one step per file access; every file access succeeds
WriterPrompts == <<"first take", "second take">>

Thread(t) == running.thread[t]

AllIdle == \A t \in Threads : Thread(t).pc = "idle"

\* the library before the concurrent calls start: saves made one at a time
Populate(audio_array, prompt) ==
    /\ AllIdle
    /\ SaveRecord(audio_array, prompt, TRUE, TRUE, "ok")

\* save_music_file up to the call of save_metadata: the audio file is
\* written and the metadata built
BeginSave(t, audio_array) ==
    /\ Thread(t).pc = "idle"
    /\ save_audio(audio_array, TRUE)
    /\ LET timestamp == Timestamp(clock)
           filename == Filename(timestamp)
           filepath == Filepath(filename)
           written == WriteFile(disk, filepath, Len(audio_array))
           music_metadata ==
               [filename |-> filename, prompt |-> WriterPrompts[t],
                timestamp |-> timestamp, filepath |-> filepath,
                file_size |-> written[filepath]]
       IN  /\ disk' = written
           /\ running' = [running EXCEPT !.thread[t] =
                  [NoThread EXCEPT !.pc = "read", !.op = "save",
                                   !.path = filepath, !.record = music_metadata]]
    /\ UNCHANGED <<clock, metaState, sidecar, playlist, model_loaded, processor,
                   model, loads, last>>

\* delete_music_file up to the call of load_music_library: os.remove
BeginDelete(t, filepath) ==
    /\ Thread(t).pc = "idle"
    /\ disk' = IF exists(disk, filepath) THEN Remove(disk, filepath) ELSE disk
    /\ running' = [running EXCEPT !.thread[t] =
           [NoThread EXCEPT !.pc = "read", !.op = "delete", !.path = filepath]]
    /\ UNCHANGED <<clock, metaState, sidecar, playlist, model_loaded, processor,
                   model, loads, last>>

\* what the call reads: save_metadata takes the whole array, an empty one
\* when there is no sidecar; delete_music_file takes load_music_library()
ReadBy(op) ==
    IF op = "save" THEN (IF metaState # "absent" THEN sidecar ELSE << >>)
    ELSE load_music_library(metaState, sidecar, disk, TRUE)

\* json.load of the sidecar into the call's all_metadata
ReadSidecar(t) ==
    /\ Thread(t).pc = "read"
    /\ running' = [running EXCEPT !.thread[t].pc = "write",
                                  !.thread[t].local = ReadBy(Thread(t).op),
                                  !.thread[t].readAt = running.events + 1,
                                  !.events = running.events + 1]
    /\ UNCHANGED <<clock, disk, metaState, sidecar, playlist, model_loaded,
                   processor, model, loads, last>>

\* a write that starts from the array the file holds now
all_metadata_fresh(local, current) == current

\* the array the call changes and writes back: the one it read
all_metadata(local, current) == local

\* json.dump of the changed array over the sidecar, and the return
WriteBack(t) ==
    /\ Thread(t).pc = "write"
    /\ LET th == Thread(t)
           base == all_metadata(th.local, ReadBy(th.op))
           records == IF th.op = "save" THEN Append(base, th.record)
                      ELSE updated_metadata(base, th.path)
           w == WriteSidecar(metaState, sidecar, records, "ok")
       IN  /\ metaState' = w.metaState
           /\ sidecar' = w.sidecar
           /\ running' = [running EXCEPT !.thread[t].pc = "done",
                                         !.thread[t].ok = ~w.raised,
                                         !.thread[t].writeAt = running.events + 1,
                                         !.events = running.events + 1]
    /\ UNCHANGED <<clock, disk, playlist, model_loaded, processor, model, loads,
                   last>>

NextWriters ==
    \/ Tick
    \/ \E audio_array \in Audios, prompt \in Prompts : Populate(audio_array, prompt)
    \/ \E t \in Threads, audio_array \in Audios : BeginSave(t, audio_array)
    \/ \E t \in Threads, filepath \in AudioPaths : BeginDelete(t, filepath)
    \/ \E t \in Threads : ReadSidecar(t)
    \/ \E t \in Threads : WriteBack(t)

SpecWriters == Init /\ [][NextWriters]_vars

\* ------------------------------------- two callers of generate_music
\* generate_music run by two threads on the cached MusicGenerator: the test
\* of model_loaded, load_model and the inference are separate steps
Loading == Cardinality({t \in Threads : Thread(t).pc = "load"})

\* if not self.model_loaded
CheckLoaded(t) ==
    /\ Thread(t).pc = "idle"
    /\ ~NeedsLoad(model_loaded) \/ loads + Loading < MaxLoads
    /\ running' = [running EXCEPT
           !.thread[t] = [NoThread EXCEPT
               !.pc = IF NeedsLoad(model_loaded) THEN "load" ELSE "infer",
               !.op = "generate",
               !.early = running.successes = 0]]
    /\ UNCHANGED <<clock, disk, metaState, sidecar, playlist, model_loaded,
                   processor, model, loads, last>>

\* self.load_model(), and the return of the failure pair when it fails
LoadModel(t, outcome) ==
    /\ Thread(t).pc = "load"
    /\ LET l == load_model(processor, model, model_loaded, outcome)
           g == generate_music(TRUE, l.ret, TRUE)
       IN  /\ processor' = l.processor
           /\ model' = l.model
           /\ model_loaded' = l.model_loaded
           /\ loads' = loads + 1
           /\ running' = [running EXCEPT
                  !.thread[t].pc = IF l.ret THEN "infer" ELSE "idle",
                  !.successes = IF l.ret THEN running.successes + 1
                                ELSE running.successes]
           /\ last' = IF l.ret THEN last
                      ELSE [Call("generate") EXCEPT !.loadTried = TRUE,
                                                    !.loadFailed = TRUE,
                                                    !.retOk = g.audio,
                                                    !.msg = g.msg]
    /\ UNCHANGED <<clock, disk, metaState, sidecar, playlist>>

\* the processor and model.generate calls, and the return
Infer(t, inferOk) ==
    /\ Thread(t).pc = "infer"
    /\ LET g == generate_music(FALSE, TRUE, inferOk)
       IN  last' = [Call("generate") EXCEPT !.inferred = g.inferred,
                                           !.inferFailed = ~inferOk,
                                           !.retOk = g.audio,
                                           !.msg = g.msg]
    /\ running' = [running EXCEPT !.thread[t].pc = "idle",
                                  !.thread[t].ok = inferOk]
    /\ UNCHANGED <<clock, disk, metaState, sidecar, playlist, model_loaded,
                   processor, model, loads>>

NextLoaders ==
    \/ \E t \in Threads : CheckLoaded(t)
    \/ \E t \in Threads, outcome \in LoadOutcomes : LoadModel(t, outcome)
    \/ \E t \in Threads, inferOk \in BOOLEAN : Infer(t, inferOk)

SpecLoaders == Init /\ [][NextLoaders]_vars

\* ------------------------------------------------------------ properties
\* what a listRecords call made now would return if its read succeeds
Listing(ms, sc, d) ==
    IF ms # "ok" THEN << >> ELSE SelectSeq(sc, LAMBDA r : r.filepath \in DOMAIN d)

References(sc, path) == \E i \in DOMAIN sc : sc[i].filepath = path

Count(s, x) == Cardinality({i \in DOMAIN s : s[i] = x})

RECURSIVE IsSubseq(_, _)
\* a can be obtained from b by leaving elements out
IsSubseq(a, b) ==
    IF a = << >> THEN TRUE
    ELSE IF b = << >> THEN FALSE
    ELSE IF Head(a) = Head(b) THEN IsSubseq(Tail(a), Tail(b))
    ELSE IsSubseq(a, Tail(b))

\* C1: a saveRecord that returns a filepath, followed by listRecords, yields
\* exactly one more record than listRecords gave before the save; that
\* record's filepath is the returned path and its file exists on disk.
C1_SaveThenList ==
    (last.op = "save" /\ last.retPath # None) =>
        LET before == Listing(last.pre.metaState, last.pre.sidecar, last.pre.disk)
            after == Listing(metaState, sidecar, disk)
        IN  /\ Len(after) = Len(before) + 1
            /\ References(after, last.retPath)
            /\ exists(disk, last.retPath)

\* C2: saveRecord returns none whenever the audio write fails or the
\* metadata sidecar cannot be read or rewritten.
C2_SaveFailureReturnsNone ==
    (last.op = "save" /\ (last.audioFailed \/ last.metaFailed)) => last.retPath = None

\* C3: filenames are unique: no two records of the sidecar share a filepath,
\* and a successful save never returns the filepath of an earlier record or
\* writes over an existing audio file.
C3_UniqueFilenames ==
    /\ \A i, j \in DOMAIN sidecar : i # j => sidecar[i].filepath # sidecar[j].filepath
    /\ (last.op = "save" /\ last.retPath # None) =>
           /\ ~References(last.pre.sidecar, last.retPath)
           /\ ~exists(last.pre.disk, last.retPath)

\* C4 as stated: listRecords returns exactly the sidecar records whose file
\* exists, in sidecar order, and changes neither the sidecar nor any file.
C4_Original ==
    last.op = "list" =>
        /\ last.retList = SelectSeq(sidecar, LAMBDA r : exists(disk, r.filepath))
        /\ Pre = last.pre

\* C4 amended: listRecords returns exactly the sidecar records whose file
\* exists, in sidecar order, or no record at all when the sidecar cannot be
\* read; in both cases the sidecar and the audio files are left unchanged,
\* so pruned records are still in the sidecar.
C4_ListRecords ==
    last.op = "list" =>
        /\ last.retList = IF last.readFailed THEN << >>
                          ELSE SelectSeq(sidecar, LAMBDA r : exists(disk, r.filepath))
        /\ Pre = last.pre

\* a listing left a record out and the sidecar still holds it
C4_Witness ==
    /\ last.op = "list"
    /\ ~last.readFailed
    /\ last.retList # << >>
    /\ Len(last.retList) < Len(sidecar)

\* C5 as stated: deleteRecord(p), for p that no sidecar record references,
\* returns true and leaves the number of sidecar records unchanged.
C5_Original ==
    (last.op = "delete" /\ ~References(last.pre.sidecar, last.path)) =>
        /\ last.retOk
        /\ Len(sidecar) = Len(last.pre.sidecar)

\* C5 amended: deleteRecord(p), for p that no sidecar record references,
\* returns true unless removing p or rewriting the sidecar fails; when it
\* returns true the sidecar holds exactly the records whose file existed
\* before the call, and none when the sidecar could not be read or p is the
\* sidecar file itself.
C5_DeleteUnreferenced ==
    (last.op = "delete" /\ ~References(last.pre.sidecar, last.path)) =>
        /\ last.retOk <=> (~last.removeFailed /\ ~last.writeFailed)
        /\ last.retOk =>
               /\ metaState = "ok"
               /\ sidecar = IF last.readFailed \/ last.path = metadata_file THEN << >>
                            ELSE Listing(last.pre.metaState, last.pre.sidecar, last.pre.disk)

\* a delete of an unreferenced path succeeded and dropped a record whose file
\* was missing, keeping another
C5_Witness ==
    /\ last.op = "delete"
    /\ ~References(last.pre.sidecar, last.path)
    /\ last.retOk
    /\ sidecar # << >>
    /\ Len(sidecar) < Len(last.pre.sidecar)

FileAbsentBefore ==
    IF last.path = metadata_file THEN last.pre.metaState = "absent"
    ELSE ~exists(last.pre.disk, last.path)

\* C6 as stated: deleteRecord returns true when the file is already absent
\* and returns false only when rewriting the sidecar fails.
C6_Original ==
    last.op = "delete" =>
        /\ (FileAbsentBefore /\ ~last.writeFailed) => last.retOk
        /\ ~last.retOk => last.writeFailed

\* C6 amended: deleteRecord returns true when the file is already absent and
\* the sidecar is rewritten; it returns false exactly when removing the file
\* or rewriting the sidecar fails; a failure to read the sidecar does not
\* make it return false.
C6_DeleteResult ==
    last.op = "delete" =>
        /\ (FileAbsentBefore /\ ~last.writeFailed) => last.retOk
        /\ ~last.retOk <=> (last.removeFailed \/ last.writeFailed)

\* removing the audio file failed and the call returned false although the
\* sidecar was never written
C6_Witness ==
    /\ last.op = "delete"
    /\ last.removeFailed
    /\ ~last.writeFailed
    /\ ~last.retOk

Gone(path) == ~exists(disk, path) /\ ~References(sidecar, path)

\* the record of a file removed from outside is listed by nobody
C7_ListExcludes ==
    last.op = "list" => \A i \in DOMAIN last.retList : exists(disk, last.retList[i].filepath)

C7_StaleRecordBefore ==
    /\ last.op = "delete"
    /\ References(last.pre.sidecar, last.path)
    /\ ~exists(last.pre.disk, last.path)

\* C7 as stated: listRecords excludes a record whose file was deleted
\* externally and deleteRecord on that path returns true; after any
\* deleteRecord(p) that returns true the file p does not exist and the
\* sidecar holds no record with filepath p.
C7_Original ==
    /\ C7_ListExcludes
    /\ C7_StaleRecordBefore => last.retOk
    /\ (last.op = "delete" /\ last.retOk) => Gone(last.path)

\* C7 amended: listRecords excludes a record whose file was deleted
\* externally, and deleteRecord on that path returns true unless rewriting
\* the sidecar fails; after any deleteRecord(p) that returns true, p being an
\* audio path, the file p does not exist and the sidecar holds no record with
\* filepath p, and no later listRecords, getRecent or deleteRecord call
\* brings such a record or file back.
C7_DeletePermanent ==
    /\ [](/\ C7_ListExcludes
          /\ C7_StaleRecordBefore => (last.retOk <=> ~last.writeFailed)
          /\ (last.op = "delete" /\ last.retOk /\ last.path # metadata_file)
                 => Gone(last.path))
    /\ [][\A path \in AudioPaths :
             (Gone(path) /\ last'.op \in {"list", "recent", "delete"}) => Gone(path)']_vars

\* a record whose file had been removed from outside was deleted
C7_Witness == C7_StaleRecordBefore /\ last.retOk /\ Gone(last.path)

Min(a, b) == IF a < b THEN a ELSE b

\* C8: getRecent(limit) is the listing sorted by timestamp, newest first, cut
\* to the first limit entries: it has min(limit, number of valid records)
\* records, all of them valid records, in descending timestamp order, and
\* every returned timestamp is >= that of every valid record not returned.
C8_GetRecent ==
    last.op = "recent" =>
        LET valid == IF last.readFailed THEN << >> ELSE Listing(metaState, sidecar, disk)
            r == last.retList
        IN  /\ Len(r) = Min(last.limit, Len(valid))
            /\ \A i \in DOMAIN r : Count(r, r[i]) <= Count(valid, r[i])
            /\ \A i, j \in DOMAIN r : i < j => r[i].timestamp >= r[j].timestamp
            /\ \A k \in DOMAIN valid :
                   Count(valid, valid[k]) > Count(r, valid[k]) =>
                       \A i \in DOMAIN r : r[i].timestamp >= valid[k].timestamp

\* records saved at t1 < t2 are both valid and getRecent(1) returned the one
\* saved at t2
C8_Witness ==
    /\ last.op = "recent"
    /\ last.limit = 1
    /\ ~last.readFailed
    /\ Len(Listing(metaState, sidecar, disk)) = 2
    /\ sidecar[1].timestamp < sidecar[Len(sidecar)].timestamp
    /\ last.retList = <<sidecar[Len(sidecar)]>>

\* C9: every call leaves in the sidecar a subsequence of the records it held
\* before, or (a save) those records followed by the one record the save
\* built: records keep their order and their field values and leave only as
\* a whole.
C9_SidecarHistory ==
    [][\/ IsSubseq(sidecar', sidecar)
       \/ /\ last'.op = "save"
          /\ Len(sidecar') = Len(sidecar) + 1
          /\ SubSeq(sidecar', 1, Len(sidecar)) = sidecar
          /\ sidecar'[Len(sidecar')].filepath = last'.retPath
          /\ sidecar'[Len(sidecar')].timestamp = Timestamp(clock)]_vars

\* after a playlist export, a delete took the first of three records out of
\* the sidecar and the other two stayed as they were
C9_Witness ==
    /\ last.op = "delete"
    /\ last.retOk
    /\ Len(last.pre.sidecar) = 3
    /\ sidecar = Tail(last.pre.sidecar)
    /\ playlist # [n \in PlaylistNames |-> NoPlaylist]

AdapterState ==
    IF model_loaded THEN "Ready" ELSE IF loads = 0 THEN "Unloaded" ELSE "Failed"

\* C10: the adapter goes from Unloaded through one load attempt to Ready or
\* Failed; once Ready it stays Ready and no later generate call loads again;
\* a call makes at most one load attempt, so a failed load is retried only by
\* a later call.
C10_Lifecycle ==
    [][/\ AdapterState = "Ready" => (AdapterState' = "Ready" /\ loads' = loads)
       /\ AdapterState # "Ready" => (AdapterState' \in {"Ready", "Failed"} /\ loads' = loads + 1)
       /\ last'.loadTried <=> AdapterState # "Ready"
       /\ AdapterState' = "Ready" => (processor' /\ model')]_vars

\* a generate call on a Ready adapter ran without loading, after an earlier
\* load had failed and a later one succeeded
C10_Witness ==
    /\ last.op = "generate"
    /\ ~last.loadTried
    /\ last.retOk
    /\ model_loaded
    /\ loads = 2

\* C11: generate always returns a pair: when the adapter is not Ready and the
\* load fails it returns (none, "Failed to load model") and the backend is
\* not called; when inference fails it returns (none, error description); the
\* audio is not none only when the model is loaded and inference succeeded.
C11_GenerateResult ==
    last.op = "generate" =>
        /\ last.msg \in {"Failed to load model", "Error generating music", "Generated"}
        /\ (last.loadTried /\ last.loadFailed) =>
               (~last.retOk /\ last.msg = "Failed to load model" /\ ~last.inferred)
        /\ last.inferFailed => (~last.retOk /\ last.msg = "Error generating music")
        /\ last.retOk => (model_loaded /\ last.inferred /\ ~last.inferFailed /\ ~last.loadFailed)

\* a call on an Unloaded adapter whose load failed: nothing was generated
C11_Witness ==
    /\ last.op = "generate"
    /\ last.loadTried
    /\ last.loadFailed
    /\ ~last.retOk
    /\ last.msg = "Failed to load model"
    /\ ~model_loaded

\* C12: no operation of the library store, the post-processor or the adapter
\* lets an exception reach its caller.
C12_NoPropagation == ~last.raised

FracEq(x, y) == x.num * y.den = y.num * x.den

One == [num |-> 1, den |-> 1]

\* the value add_fade_effects must leave at position i when the fade-in is
\* applied iff inApplied and the fade-out iff outApplied
Faded(i, inApplied, outApplied) ==
    LET len == Len(last.sample)
        fin == IF inApplied /\ i <= last.fadeIn
               THEN (IF last.fadeIn = 1 THEN [num |-> 0, den |-> 1]
                     ELSE [num |-> i - 1, den |-> last.fadeIn - 1])
               ELSE One
        fout == IF outApplied /\ i > len - last.fadeOut
                THEN (IF last.fadeOut = 1 THEN One
                      ELSE [num |-> len - i, den |-> last.fadeOut - 1])
                ELSE One
    IN  [num |-> last.sample[i] * fin.num * fout.num, den |-> fin.den * fout.den]

\* C16 as stated: the first fadeIn samples are ramped from 0 to 1 and the last
\* fadeOut samples from 1 to 0, the others are unchanged, and a fade is
\* skipped exactly when the sample is shorter than its window.
C16_Original ==
    last.op = "add_fade_effects" =>
        /\ ~last.raised
        /\ Len(last.out) = Len(last.sample)
        /\ \A i \in DOMAIN last.sample :
               FracEq(last.out[i], Faded(i, Len(last.sample) >= last.fadeIn,
                                            Len(last.sample) >= last.fadeOut))

\* C16 amended: a fade is applied exactly when the sample is longer than its
\* window, and skipped without error when the sample is as long as the window
\* or shorter; an applied fade-in multiplies the first fadeIn samples by the
\* ramp 0 to 1 and an applied fade-out the last fadeOut samples by the ramp 1
\* to 0 (a sample inside both windows by both), the others are unchanged.
C16_ApplyFades ==
    last.op = "add_fade_effects" =>
        /\ ~last.raised
        /\ Len(last.out) = Len(last.sample)
        /\ \A i \in DOMAIN last.sample :
               FracEq(last.out[i], Faded(i, Len(last.sample) > last.fadeIn,
                                            Len(last.sample) > last.fadeOut))

\* a sample exactly as long as the fade-in window and longer than the
\* fade-out window: its start came back unmodified, its end ramped down to 0
C16_Witness ==
    /\ last.op = "add_fade_effects"
    /\ last.fadeIn = 3
    /\ last.fadeOut = 2
    /\ Len(last.sample) = 3
    /\ last.sample[1] # 0
    /\ last.sample[3] # 0
    /\ FracEq(last.out[1], [num |-> last.sample[1], den |-> 1])
    /\ last.out[3].num = 0

PeakIsOne(data) ==
    /\ \A i \in DOMAIN data : data[i].den > 0 /\ Abs(data[i].num) <= data[i].den
    /\ \E i \in DOMAIN data : Abs(data[i].num) = data[i].den

NonSilent(audio_array) == \E i \in DOMAIN audio_array : audio_array[i] # 0

\* C17 as stated: serializeToWav and saveToDisk both write, for a non-silent
\* input, data of peak absolute amplitude 1 with the input's sample count.
C17_Original ==
    (last.op \in {"save_audio", "create_audio_buffer"} /\ last.retOk
        /\ NonSilent(last.sample)) =>
        /\ Len(last.out) = Len(last.sample)
        /\ PeakIsOne(last.out)

\* C17 amended: saveToDisk divides the sample by its peak absolute amplitude
\* before writing, so for every non-silent input the written data has peak
\* absolute amplitude 1 and the input's sample count; serializeToWav writes
\* the sample as it is, with the same sample count and the same amplitudes.
C17_WrittenData ==
    /\ (last.op = "save_audio" /\ last.retOk /\ NonSilent(last.sample)) =>
           /\ Len(last.out) = Len(last.sample)
           /\ PeakIsOne(last.out)
           /\ \A i, j \in DOMAIN last.out :
                  last.out[i].num * last.sample[j] = last.out[j].num * last.sample[i]
    /\ (last.op = "create_audio_buffer" /\ last.retOk) =>
           /\ Len(last.out) = Len(last.sample)
           /\ \A i \in DOMAIN last.out :
                  FracEq(last.out[i], [num |-> last.sample[i], den |-> 1])

\* an array of peak 2 was saved: the written data has peak 1
C17_Witness ==
    /\ last.op = "save_audio"
    /\ last.retOk
    /\ Len(last.sample) = 2
    /\ \E i \in DOMAIN last.sample : last.sample[i] = -2
    /\ PeakIsOne(last.out)

\* the position of the first record of the selection whose copy raises (its
\* source file is missing, or the copy itself fails), 0 when every copy succeeds
FirstCopyFailure ==
    LET bad == {i \in 1 .. Len(last.retList) :
                   \/ ~exists(last.pre.disk, last.retList[i].filepath)
                   \/ i = last.failAt}
    IN  IF bad = {} THEN 0 ELSE CHOOSE i \in bad : \A j \in bad : i <= j

\* C14: exportPlaylist returns none when the directory cannot be created or
\* a copy fails; after a copy failure the files copied before it are in the
\* playlist directory, the call wrote no manifest, and the sidecar and the
\* audio files are as before; it returns the directory path only when every
\* record's file is in the directory and the call wrote a manifest listing
\* the whole selection.
C14_ExportPlaylist ==
    last.op = "export" =>
        LET dir == playlist[last.name]
            k == FirstCopyFailure
        IN  /\ (last.mkdirFailed \/ k > 0) => last.retPath = None
            /\ (~last.mkdirFailed /\ k > 0) =>
                   /\ \A j \in 1 .. k - 1 : last.retList[j].filename \in dir.files
                   /\ last.manifest = None
                   /\ sidecar = last.pre.sidecar
                   /\ metaState = last.pre.metaState
                   /\ disk = last.pre.disk
            /\ last.retPath # None =>
                   /\ last.retPath = playlist_dir(last.name)
                   /\ \A j \in 1 .. Len(last.retList) :
                          last.retList[j].filename \in dir.files
                   /\ last.manifest = last.retList
                   /\ dir.manifest

\* the second copy of a two-record export fails: the first record's file is
\* in the playlist directory, which holds no manifest, and none is returned
C14_Witness ==
    /\ last.op = "export"
    /\ ~last.mkdirFailed
    /\ Len(last.retList) = 2
    /\ FirstCopyFailure = 2
    /\ last.retList[1].filename \in playlist[last.name].files
    /\ ~playlist[last.name].manifest
    /\ last.retPath = None

\* text holds the word w
Contains(text, w) == \E i \in 1 .. Len(text) : text[i] = w

\* C15: for a style id outside the catalog buildEnhancedPrompt returns the
\* prompt unchanged; for a style id in the catalog the result is the prompt,
\* then the style's first three keywords separated by commas, then the
\* style's mood label, so that it starts with the prompt and contains the
\* mood label.
C15_StylePrompt ==
    last.op = "get_style_prompt" =>
        LET p == last.base
            n == Len(p)
            r == last.text
        IN  IF last.style \notin DOMAIN style_configs
            THEN r = p
            ELSE LET c == style_configs[last.style]
                 IN  /\ Len(r) = n + 8
                     /\ SubSeq(r, 1, n) = p
                     /\ \A k \in 1 .. 3 : /\ r[n + 2 * k - 1] = Sep
                                           /\ r[n + 2 * k] = c.keywords[k]
                     /\ r[n + 7] = Sep
                     /\ r[n + 8] = c.mood
                     /\ Contains(r, c.mood)

\* a non-empty prompt enhanced with a catalog style
C15_Witness ==
    /\ last.op = "get_style_prompt"
    /\ last.style = "jazz"
    /\ last.base = <<"calm", Sep, "sophisticated">>
    /\ last.text = <<"calm", Sep, "sophisticated", Sep, "jazz", Sep, "swing", Sep,
                     "blues", Sep, "sophisticated">>

\* C19: deleteRecord(p) affects only the records with filepath p: every
\* record with another filepath whose file existed before the call is still
\* in the sidecar, and its file still on disk, after the call, also when the
\* sidecar cannot be read or parsed and when p is not a library audio file.
C19_DeleteFrame ==
    (last.op = "delete" /\ last.pre.metaState = "ok") =>
        \A i \in DOMAIN last.pre.sidecar :
            LET r == last.pre.sidecar[i]
            IN  (r.filepath # last.path /\ exists(last.pre.disk, r.filepath)) =>
                    /\ exists(disk, r.filepath)
                    /\ metaState = "ok"
                    /\ \E j \in DOMAIN sidecar : sidecar[j] = r

\* C20: the model used for a generation is the one the request names: when a
\* request that selects a model variant is made on an Unloaded adapter and
\* produces audio, the variant the adapter loaded for it is the selected
\* one, which is the model value stored in the resulting record.
C20_SelectedModelLoaded ==
    (last.op = "generate" /\ last.loadTried /\ last.retOk) =>
        last.variant = last.selected

Done(t) == Thread(t).pc = "done" /\ Thread(t).ok

Holds(r) == \E j \in DOMAIN sidecar : sidecar[j] = r

\* C13: the sidecar read-modify-write is not locked, so of two concurrent
\* writers that both return success one update can be lost. For the writer
\* whose write comes first: the record it appended is in the final sidecar
\* exactly when the other writer read the sidecar after that write (unless
\* the other call deletes that very record), and the record it removed
\* stays removed when the other writer read after that write; the later
\* writer's own record is always there.
C13_LostUpdate ==
    \A w, u \in Threads :
        (w # u /\ Done(w) /\ Done(u) /\ Thread(w).writeAt < Thread(u).writeAt) =>
            LET a == Thread(w)
                b == Thread(u)
                serial == b.readAt > a.writeAt
            IN  /\ (a.op = "save" /\ ~(b.op = "delete" /\ b.path = a.path)) =>
                       (Holds(a.record) <=> serial)
                /\ (a.op = "delete" /\ serial /\ ~(b.op = "save" /\ b.path = a.path)) =>
                       ~References(sidecar, a.path)
                /\ b.op = "save" => Holds(b.record)

\* two saves have both returned and the sidecar lacks the record of the first
C13_Witness ==
    /\ Done(1) /\ Done(2)
    /\ Thread(1).op = "save" /\ Thread(2).op = "save"
    /\ Thread(1).path # Thread(2).path
    /\ exists(disk, Thread(1).path)
    /\ ~Holds(Thread(1).record)
    /\ Holds(Thread(2).record)

\* C18: the test of model_loaded and the load are not one step. A call that
\* tests the flag after a load has succeeded never loads, so calls made one
\* after the other load the model at most once after the first successful
\* load; a call that tested it before goes on to load whatever has happened
\* since, so the model can be loaded once per concurrent caller.
C18_CheckThenLoad ==
    /\ \A t \in Threads : Thread(t).pc = "load" => Thread(t).early
    /\ running.successes <= Cardinality(Threads)
    /\ running.successes > 0 <=> model_loaded

\* both callers found the adapter not loaded and both loads succeeded
C18_Witness ==
    /\ running.successes = 2
    /\ loads = 2
    /\ model_loaded

====
